---- MODULE Spec2Model ----
(***************************************************************************)
(* A model of pypower/gausspf.py: the Gauss-Seidel power flow solver.      *)
(*                                                                         *)
(* One call gausspf(Ybus, Sbus, V0, ref, pv, pq, ppopt) is a sequential    *)
(* state machine.  `inp` holds the arguments as they were at entry, `run`  *)
(* the call's state (its locals, the caller's arrays V0 and Sbus it holds  *)
(* references to, and its position pc), `twin` a second call on the same   *)
(* arguments whose VERBOSE option may differ.                              *)
(*                                                                         *)
(* Numbers.  binary64 complex numbers are modelled as fixed-point complex  *)
(* numbers: a pair of integers counting units of 1/SCALE, every operation  *)
(* rounded to the nearest unit.  A value whose magnitude leaves the        *)
(* representable range, and the result of a division by zero, is the       *)
(* single non-finite value NaN (numpy's inf and nan), which every          *)
(* operation propagates and which compares false with `<`.                 *)
(***************************************************************************)
EXTENDS Integers, Sequences, FiniteSets

\* units per 1.0 p.u.: the precision of the number model
SCALE == 20
\* largest iteration cap PF_MAX_IT_GS the model draws
MaxIt == 3

\* the largest representable magnitude of a component (binary64's overflow threshold)
Huge == 8 * SCALE

\* bus numbers of the modelled network
Buses == 0 .. 2

----------------------------------------------------------------------------
(* complex arithmetic *)

NaN == [re |-> 0, im |-> 0, fin |-> FALSE]

AbsInt(x) == IF x < 0 THEN 0 - x ELSE x

Num(re, im) ==
    IF AbsInt(re) > Huge \/ AbsInt(im) > Huge
    THEN NaN
    ELSE [re |-> re, im |-> im, fin |-> TRUE]

\* x / d rounded to the nearest integer, d > 0
RDiv(x, d) == (2 * x + d) \div (2 * d)

RECURSIVE SqrtSearch(_, _, _)
SqrtSearch(n, lo, hi) ==
    IF lo >= hi THEN lo
    ELSE LET mid == (lo + hi + 1) \div 2
         IN  IF mid * mid <= n THEN SqrtSearch(n, mid, hi)
                               ELSE SqrtSearch(n, lo, mid - 1)

\* floor of the square root of n >= 0
ISqrt(n) == SqrtSearch(n, 0, 46340)

\* the square root of n >= 0 rounded to the nearest integer
SqrtR(n) == LET r == ISqrt(n) IN IF n - r * r > r THEN r + 1 ELSE r

IsZero(a) == a.fin /\ a.re = 0 /\ a.im = 0

CAdd(a, b) == IF a.fin /\ b.fin THEN Num(a.re + b.re, a.im + b.im) ELSE NaN

CSub(a, b) == IF a.fin /\ b.fin THEN Num(a.re - b.re, a.im - b.im) ELSE NaN

CMul(a, b) ==
    IF a.fin /\ b.fin
    THEN Num(RDiv(a.re * b.re - a.im * b.im, SCALE),
             RDiv(a.re * b.im + a.im * b.re, SCALE))
    ELSE NaN

CDiv(a, b) ==
    IF a.fin /\ b.fin /\ ~IsZero(b)
    THEN LET den == b.re * b.re + b.im * b.im
         IN  Num(RDiv((a.re * b.re + a.im * b.im) * SCALE, den),
                 RDiv((a.im * b.re - a.re * b.im) * SCALE, den))
    ELSE NaN

Conj(a) == IF a.fin THEN Num(a.re, 0 - a.im) ELSE NaN

\* a.real and a.imag, as numbers of the same kind with no imaginary part
RealPart(a) == IF a.fin THEN Num(a.re, 0) ELSE NaN

ImagPart(a) == IF a.fin THEN Num(a.im, 0) ELSE NaN

\* abs(a)
CAbs(a) == IF a.fin THEN Num(SqrtR(a.re * a.re + a.im * a.im), 0) ELSE NaN

\* x < y on reals: false when either side is not finite
Less(x, y) == x.fin /\ y.fin /\ x.re < y.re

\* the larger of two non-negative reals; NaN if either is not finite
RMax(x, y) == IF x.fin /\ y.fin THEN (IF x.re < y.re THEN y ELSE x) ELSE NaN

----------------------------------------------------------------------------
(* vectors and the sparse matrix-vector product *)

RECURSIVE RowSum(_, _, _, _)
\* sum over the stored (nonzero) entries Ybus[k, j], j = n .. 2, of Ybus[k, j] * V[j]
RowSum(Ybus, V, k, n) ==
    IF n \notin Buses THEN Num(0, 0)
    ELSE IF IsZero(Ybus[k][n]) THEN RowSum(Ybus, V, k, n + 1)
    ELSE CAdd(CMul(Ybus[k][n], V[n]), RowSum(Ybus, V, k, n + 1))

\* Ybus[k, :] * V
RowTimes(Ybus, V, k) == RowSum(Ybus, V, k, 0)

\* mis = V * conj(Ybus * V) - Sbus
Mismatch(Ybus, V, Sbus) ==
    [b \in Buses |-> CSub(CMul(V[b], Conj(RowTimes(Ybus, V, b))), Sbus[b])]

\* mis[idx].real and mis[idx].imag for an index sequence idx
RealAt(mis, idx) == [n \in 1 .. Len(idx) |-> RealPart(mis[idx[n]])]

ImagAt(mis, idx) == [n \in 1 .. Len(idx) |-> ImagPart(mis[idx[n]])]

RECURSIVE NormFrom(_, _)
NormFrom(F, n) ==
    IF n > Len(F) THEN Num(0, 0)
    ELSE RMax(CAbs(F[n]), NormFrom(F, n + 1))

\* linalg.norm(F, Inf): the largest absolute value of F's entries
NormInf(F) == NormFrom(F, 1)

----------------------------------------------------------------------------
(* the solver's formulas *)

\* the first evaluation with the PV buses left out
InitialFWithoutPV(mis, pv, pq) == RealAt(mis, pq) \o ImagAt(mis, pq)

\* F(x0): r_[mis[pvpq].real, mis[pq].imag] with pvpq = r_[pv, pq]
InitialF(mis, pv, pq) == RealAt(mis, pv \o pq) \o ImagAt(mis, pq)

\* F(x): r_[mis[pv].real, mis[pq].real, mis[pq].imag]
LoopF(mis, pv, pq) == RealAt(mis, pv) \o RealAt(mis, pq) \o ImagAt(mis, pq)

\* normF < tol
BelowTol(normF, tol) == Less(normF, tol)

\* the loop test without the converged flag
LoopTestNoFlag(converged, i, max_it) == i < max_it

\* the loop test stopping one sweep early
LoopTestEarly(converged, i, max_it) == converged = 0 /\ i < max_it - 1

\* the loop test with the cap off by one
LoopTestLate(converged, i, max_it) == converged = 0 /\ i <= max_it

\* not converged and i < max_it
LoopTest(converged, i, max_it) == converged = 0 /\ i < max_it

\* V[k] + (conj(Sbus[k] / V[k]) - Ybus[k, :] * V) / Ybus[k, k]
BusUpdate(Ybus, Sbus, V, k) ==
    CAdd(V[k], CDiv(CSub(Conj(CDiv(Sbus[k], V[k])), RowTimes(Ybus, V, k)),
                    Ybus[k][k]))

\* (V[k] * conj(Ybus[k, :] * V)).imag
ReactiveAt(Ybus, V, k) == ImagPart(CMul(V[k], Conj(RowTimes(Ybus, V, k))))

\* the injection replaced by the reactive part alone
ReactiveOnly(s, tmp) == IF s.fin /\ tmp.fin THEN Num(0, tmp.re) ELSE NaN

\* Sbus[k].real + 1j * tmp : 1j * tmp has a non-finite real part when tmp is not finite
WithReactive(s, tmp) == IF s.fin /\ tmp.fin THEN Num(s.re, tmp.re) ELSE NaN

\* m * a / rho, where rho * rho = sq, rounded to a unit in one step
Scaled(m, a, sq) ==
    IF a < 0 THEN 0 - SqrtR(((m * a) * (m * a)) \div sq)
             ELSE SqrtR(((m * a) * (m * a)) \div sq)

\* Vm[k] * V[k] / abs(V[k]); 0 / 0 is not finite
Renormalized(vm, v) ==
    IF vm.fin /\ v.fin /\ ~IsZero(v)
    THEN LET sq == v.re * v.re + v.im * v.im
         IN  Num(Scaled(vm.re, v.re, sq), Scaled(vm.re, v.im, sq))
    ELSE NaN

----------------------------------------------------------------------------
(* the state of one call *)

VARIABLES inp, run, twin

vars == <<inp, run, twin>>

Line(msg, i, normF) == [msg |-> msg, i |-> i, normF |-> normF]

Event(ph, bus, val) == [ph |-> ph, bus |-> bus, val |-> val]

\* sys.stdout.write(line) when cond
Write(r, cond, line) == IF cond THEN [r EXCEPT !.out = Append(@, line)] ELSE r

\* a store through V when V is the caller's V0 itself (V = V0, no copy)
StoreVAliased(r, k, x) == [r EXCEPT !.V[k] = x, !.V0[k] = x]

\* V[k] = x : a store into the call's own array V, the copy of V0
StoreV(r, k, x) == [r EXCEPT !.V[k] = x]

\* Sbus[k] = x : a store into the caller's array Sbus
StoreSbus(r, k, x) == [r EXCEPT !.Sbus[k] = x]

\* lines 50-65: options and initialisation; V0 and Sbus are the caller's arrays
Initialize(a, verbose) ==
    [ pc        |-> "evalF0",
      verbose   |-> verbose,
      V0        |-> a.V0,
      Sbus      |-> a.Sbus,
      converged |-> 0,
      i         |-> 0,
      V         |-> a.V0,
      Vm        |-> [b \in Buses |-> CAbs(a.V0[b])],
      F         |-> << >>,
      normF     |-> Num(0, 0),
      k         |-> 0,
      out       |-> << >>,
      \* history: the events of the current sweep, V at its start, and the
      \* vector the last per-bus update read
      log       |-> << >>,
      Vsweep    |-> a.V0,
      Vread     |-> a.V0 ]

\* lines 67-83: evaluate F(x0) and check the tolerance
InitialCheck(a, r) ==
    LET mis   == Mismatch(a.Ybus, r.V, r.Sbus)
        F     == InitialF(mis, a.pv, a.pq)
        normF == NormInf(F)
        ok    == BelowTol(normF, a.tol)
        r1    == [r EXCEPT !.F = F, !.normF = normF, !.pc = "while",
                           !.converged = IF ok THEN 1 ELSE @]
        r2    == Write(r1, r.verbose > 0, Line("(Gauss-Seidel)", 0, NaN))
        r3    == Write(r2, r.verbose > 1, Line("header", 0, NaN))
        r4    == Write(r3, r.verbose > 1, Line("it", r.i, normF))
    IN  Write(r4, ok /\ r.verbose > 1, Line("Converged!", 0, NaN))

\* lines 86-88: the loop test passes; update iteration counter
EnterSweep(a, r) ==
    [r EXCEPT !.i = @ + 1, !.pc = "pq", !.k = 1, !.log = << >>,
              !.Vsweep = r.V]

\* a PQ loop that also visits the reference buses
PQBusesWithRef(a) == a.ref \o a.pq

\* pq[range(npq)] and pv[range(npv)]: the buses the two loops visit, in order
PQBuses(a) == a.pq

PVBuses(a) == a.pv

\* a Jacobi update: computed from V as it was when the sweep began
PQValueJacobi(a, r, k) == BusUpdate(a.Ybus, r.Sbus, r.Vsweep, k)

\* the new voltage of PQ bus k (line 93-94), computed from the current V
PQValue(a, r, k) == BusUpdate(a.Ybus, r.Sbus, r.V, k)

\* lines 92-94: one pass of the loop over pq[range(npq)]
UpdatePQ(a, r) ==
    LET k == PQBuses(a)[r.k]
        x == PQValue(a, r, k)
    IN  [StoreV(r, k, x) EXCEPT !.k = @ + 1, !.Vread = r.V,
                                !.log = Append(@, Event("pq", k, x))]

\* line 97: if npv
AfterPQ(a, r) ==
    IF Len(a.pv) # 0 THEN [r EXCEPT !.pc = "pv", !.k = 1]
                     ELSE [r EXCEPT !.pc = "evalF"]

\* lines 98-102: one pass of the loop over pv[range(npv)]
UpdatePV(a, r) ==
    LET k  == PVBuses(a)[r.k]
        r1 == StoreSbus(r, k, WithReactive(r.Sbus[k], ReactiveAt(a.Ybus, r.V, k)))
        x  == BusUpdate(a.Ybus, r1.Sbus, r1.V, k)
    IN  [StoreV(r1, k, x) EXCEPT !.k = @ + 1, !.Vread = r.V,
                                 !.log = Append(@, Event("pv", k, x))]

\* line 104 left out, like the commented line 103
RenormNone(a) == {}

\* the buses line 104 assigns: V[pv] = ...
RenormTargets(a) == {a.pv[n] : n \in 1 .. Len(a.pv)}

\* line 104: V[pv] = Vm[pv] * V[pv] / abs(V[pv])
Renormalize(a, r) ==
    [r EXCEPT !.V = [b \in Buses |->
                        IF b \in RenormTargets(a)
                        THEN Renormalized(r.Vm[b], r.V[b]) ELSE r.V[b]],
              !.pc = "evalF",
              !.log = Append(@, Event("renorm", 0 - 1, NaN))]

\* the convergence check with converged = 1 moved under `if verbose`
CheckConvergenceIfVerbose(a, r) ==
    LET mis   == Mismatch(a.Ybus, r.V, r.Sbus)
        F     == LoopF(mis, a.pv, a.pq)
        normF == NormInf(F)
        ok    == BelowTol(normF, a.tol)
    IN  [r EXCEPT !.F = F, !.normF = normF, !.pc = "while",
                  !.converged = IF ok /\ r.verbose # 0 THEN 1 ELSE @,
                  !.log = Append(@, Event("evalF", 0 - 1, normF))]

\* lines 106-120: evaluate F(x) and check for convergence
CheckConvergence(a, r) ==
    LET mis   == Mismatch(a.Ybus, r.V, r.Sbus)
        F     == LoopF(mis, a.pv, a.pq)
        normF == NormInf(F)
        ok    == BelowTol(normF, a.tol)
        r1    == [r EXCEPT !.F = F, !.normF = normF, !.pc = "while",
                           !.converged = IF ok THEN 1 ELSE @,
                           !.log = Append(@, Event("evalF", 0 - 1, normF))]
        r2    == Write(r1, r.verbose > 1, Line("it", r.i, normF))
    IN  Write(r2, ok /\ r.verbose # 0, Line("converged in", r.i, NaN))

\* lines 122-127: the loop test fails; report and return V, converged, i
Return(a, r) ==
    Write([r EXCEPT !.pc = "done"],
          r.verbose # 0 /\ r.converged = 0, Line("did not converge in", r.i, NaN))

\* the call r advanced by its next step
Step(a, r) ==
    CASE r.pc = "evalF0" -> InitialCheck(a, r)
      [] r.pc = "while" ->
            IF LoopTest(r.converged, r.i, a.max_it) THEN EnterSweep(a, r)
                                                    ELSE Return(a, r)
      [] r.pc = "pq" ->
            IF r.k <= Len(PQBuses(a)) THEN UpdatePQ(a, r) ELSE AfterPQ(a, r)
      [] r.pc = "pv" ->
            IF r.k <= Len(PVBuses(a)) THEN UpdatePV(a, r) ELSE Renormalize(a, r)
      [] r.pc = "evalF" -> CheckConvergence(a, r)
      [] OTHER -> r

----------------------------------------------------------------------------
(* the calls the model makes *)

\* the complex number (re10 + j im10) / 10 p.u.
C(re10, im10) == Num((re10 * SCALE) \div 10, (im10 * SCALE) \div 10)

Vec(a, b, c) == [n \in Buses |-> <<a, b, c>>[n + 1]]

\* a chain 0 - 1 - 2 of two lines of admittance 2
YbusChain ==
    Vec(Vec(C(20, 0), C(-20, 0), C(0, 0)),
        Vec(C(-20, 0), C(40, 0), C(-20, 0)),
        Vec(C(0, 0), C(-20, 0), C(20, 0)))

\* a triangle of three lines of admittance 1 - 3j
YbusMesh ==
    Vec(Vec(C(20, -60), C(-10, 30), C(-10, 30)),
        Vec(C(-10, 30), C(20, -60), C(-10, 30)),
        Vec(C(-10, 30), C(-10, 30), C(20, -60)))

Ybuses == {YbusChain, YbusMesh}

Sbuses ==
    { Vec(C(0, 0), C(-10, -5), C(-5, -2)),
      Vec(C(0, 0), C(0, 0), C(-20, 0)),
      Vec(C(10, 0), C(0, 0), C(0, 0)),
      Vec(C(0, 0), C(-2, -1), C(3, 0)) }

V0s == { Vec(C(10, 0), C(10, 0), C(10, 0)),
         Vec(C(10, 0), C(10, 0), C(9, 1)) }

\* PF_TOL: one unit, a quarter p.u., four p.u.
Tols == { Num(1, 0), Num(SCALE \div 4, 0), Num(4 * SCALE, 0) }

\* the bus index arguments: ref, pv, pq.  The last one is not a partition:
\* the reference bus is listed in pq too.
BusTypes ==
    { [ref |-> <<0>>, pv |-> << >>,     pq |-> <<1, 2>>],
      [ref |-> <<0>>, pv |-> << >>,     pq |-> <<2, 1>>],
      [ref |-> <<0>>, pv |-> <<1>>,     pq |-> <<2>>],
      [ref |-> <<0>>, pv |-> <<2>>,     pq |-> <<1>>],
      [ref |-> <<0>>, pv |-> <<1, 2>>,  pq |-> << >>],
      [ref |-> <<0>>, pv |-> <<2, 1>>,  pq |-> << >>],
      [ref |-> <<0>>, pv |-> <<2>>,     pq |-> <<0, 1>>] }

Inputs ==
    { [Ybus |-> Y, Sbus |-> S, V0 |-> v0, ref |-> t.ref, pv |-> t.pv,
       pq |-> t.pq, tol |-> tol, max_it |-> m] :
        Y \in Ybuses, S \in Sbuses, v0 \in V0s, t \in BusTypes, tol \in Tols,
        m \in 1 .. MaxIt }

\* VERBOSE
Verbosity == 0 .. 2

----------------------------------------------------------------------------
(* the state machine *)

\* one call observed; the second call is given the same VERBOSE
Init ==
    /\ inp \in Inputs
    /\ \E v \in Verbosity : run = Initialize(inp, v) /\ twin = Initialize(inp, v)

\* two calls on the same arguments, each with a VERBOSE of its own
InitPair ==
    /\ inp \in Inputs
    /\ \E v \in Verbosity : run = Initialize(inp, v)
    /\ \E w \in Verbosity : twin = Initialize(inp, w)

Others == twin' = Step(inp, twin) /\ UNCHANGED inp

EvaluateInitial ==
    /\ run.pc = "evalF0"
    /\ run' = InitialCheck(inp, run)
    /\ Others

BeginSweep ==
    /\ run.pc = "while"
    /\ LoopTest(run.converged, run.i, inp.max_it)
    /\ run' = EnterSweep(inp, run)
    /\ Others

PQStep ==
    /\ run.pc = "pq"
    /\ run.k <= Len(PQBuses(inp))
    /\ run' = UpdatePQ(inp, run)
    /\ Others

PQEnd ==
    /\ run.pc = "pq"
    /\ run.k > Len(PQBuses(inp))
    /\ run' = AfterPQ(inp, run)
    /\ Others

PVStep ==
    /\ run.pc = "pv"
    /\ run.k <= Len(PVBuses(inp))
    /\ run' = UpdatePV(inp, run)
    /\ Others

PVEnd ==
    /\ run.pc = "pv"
    /\ run.k > Len(PVBuses(inp))
    /\ run' = Renormalize(inp, run)
    /\ Others

EvaluateSweep ==
    /\ run.pc = "evalF"
    /\ run' = CheckConvergence(inp, run)
    /\ Others

Finish ==
    /\ run.pc = "while"
    /\ ~LoopTest(run.converged, run.i, inp.max_it)
    /\ run' = Return(inp, run)
    /\ Others

Next ==
    \/ EvaluateInitial
    \/ BeginSweep
    \/ PQStep
    \/ PQEnd
    \/ PVStep
    \/ PVEnd
    \/ EvaluateSweep
    \/ Finish

Spec == Init /\ [][Next]_vars

SpecPair == InitPair /\ [][Next]_vars

----------------------------------------------------------------------------
(* properties *)

Range(seq) == {seq[n] : n \in 1 .. Len(seq)}

\* normF of the first evaluation, computed from the arguments as passed
InitialNorm == NormInf(InitialF(Mismatch(inp.Ybus, inp.V0, inp.Sbus), inp.pv, inp.pq))

\* C1: when the tolerance is larger than the infinity norm of the first
\* mismatch evaluation, the call runs no sweep: after that evaluation it is
\* at the loop test or has returned, with converged = 1, i = 0 and V equal to
\* V0 at every bus.
C1_NoSweepWhenInitiallyConverged ==
    (run.pc # "evalF0" /\ BelowTol(InitialNorm, inp.tol)) =>
        /\ run.pc \in {"while", "done"}
        /\ run.converged = 1
        /\ run.i = 0
        /\ \A b \in Buses : run.V[b] = inp.V0[b]

\* a call that returned at iteration 0 although the mismatch was not zero,
\* on a network with both a PV and a PQ bus
C1_Witness ==
    /\ run.pc = "done" /\ run.i = 0 /\ run.converged = 1
    /\ BelowTol(InitialNorm, inp.tol)
    /\ run.normF.re > 0
    /\ inp.pv # << >> /\ inp.pq # << >>

\* C2: the iteration counter never exceeds max_it, and a call that returns
\* with i = max_it while the last evaluated norm is not below the tolerance
\* returns converged = 0.
C2_IterationCap ==
    /\ run.i <= inp.max_it
    /\ (run.pc = "done" /\ run.i = inp.max_it /\ ~BelowTol(run.normF, inp.tol))
           => run.converged = 0

\* max_it = 1 and a tolerance one sweep does not meet: converged = 0, i = 1
C2_Witness ==
    /\ run.pc = "done" /\ inp.max_it = 1 /\ run.i = 1
    /\ run.converged = 0 /\ run.normF.fin /\ ~BelowTol(run.normF, inp.tol)

\* ref, pv and pq are pairwise disjoint
Disjoint ==
    /\ Range(inp.ref) \cap Range(inp.pv) = {}
    /\ Range(inp.ref) \cap Range(inp.pq) = {}
    /\ Range(inp.pv) \cap Range(inp.pq) = {}

\* C3: when ref, pv and pq are pairwise disjoint, V at every reference bus
\* equals V0 at that bus in every state of the call, whatever the number of
\* sweeps.
C3_ReferenceBusFixed ==
    Disjoint => \A b \in Range(inp.ref) : run.V[b] = inp.V0[b]

\* a call on disjoint index sets that returned after at least one sweep that
\* changed other voltages
C3_Witness ==
    /\ Disjoint /\ run.pc = "done" /\ run.i >= 1
    /\ \E b \in Buses : run.V[b] # inp.V0[b]
    /\ \A b \in Range(inp.ref) : run.V[b] = inp.V0[b]

\* what two calls must agree on: everything but VERBOSE and the output
Core(r) == [r EXCEPT !.verbose = 0, !.out = << >>]

\* C6: two calls on the same arguments go through the same states and
\* return the same V, converged and i, whatever their VERBOSE options.
C6_VerbosityIrrelevant == Core(run) = Core(twin)

\* two calls with different VERBOSE that returned after a sweep, with
\* different output
C6_Witness ==
    /\ run.verbose # twin.verbose
    /\ run.pc = "done" /\ twin.pc = "done" /\ run.i >= 1
    /\ run.out # twin.out

\* C7: the caller's V0 is never changed by the call.
C7_V0Preserved == run.V0 = inp.V0

\* a call that returned with V different from V0, V0 being as passed
C7_Witness ==
    /\ run.pc = "done" /\ run.i >= 1
    /\ run.V # run.V0 /\ run.V0 = inp.V0

\* how far a call has got: sweeps count first, then the position in the sweep
Rank(r) ==
    LET npq == Len(inp.pq)
        npv == Len(inp.pv)
        W   == npq + npv + 5
    IN  CASE r.pc = "evalF0" -> 0
          [] r.pc = "pq"     -> r.i * W + r.k
          [] r.pc = "pv"     -> r.i * W + npq + 1 + r.k
          [] r.pc = "evalF"  -> r.i * W + npq + npv + 3
          [] r.pc = "while"  -> r.i * W + npq + npv + 4
          [] OTHER           -> (inp.max_it + 1) * W

\* the shape of the control: a sweep runs only while not converged and within
\* the cap; at the loop test the call either starts a sweep or returns; it
\* returns either converged, the last evaluated norm being below the
\* tolerance, or not converged with i = max_it
ControlShape ==
    /\ run.i <= inp.max_it
    /\ run.pc \in {"evalF0", "while", "pq", "pv", "evalF", "done"}
    /\ run.pc \in {"pq", "pv", "evalF"} => run.converged = 0 /\ run.i >= 1
    /\ run.pc = "done" =>
          /\ run.converged = 1 <=> BelowTol(run.normF, inp.tol)
          /\ run.converged = 0 => run.i = inp.max_it
    /\ run.pc = "while" =>
          IF run.converged = 0 /\ run.i < inp.max_it
          THEN ENABLED BeginSweep /\ ~ENABLED Finish
          ELSE ENABLED Finish /\ ~ENABLED BeginSweep

\* C10: every call returns after at most max_it sweeps, either converged
\* (exactly when the last evaluated norm is below the tolerance) or exhausted
\* (not converged, i = max_it): every step takes the call strictly further
\* towards the return, within a bound fixed by max_it; at the loop test an
\* unconverged call below the cap starts a sweep and any other call returns.
C10_Terminates ==
    /\ []ControlShape
    /\ [][Rank(run') > Rank(run) /\ Rank(run') <= (inp.max_it + 1) * (Len(inp.pq) + Len(inp.pv) + 5)]_vars

\* a call that returned exhausted, and had run max_it > 1 sweeps
C10_Witness ==
    /\ run.pc = "done" /\ run.converged = 0
    /\ run.i = inp.max_it /\ inp.max_it > 1 /\ run.normF.fin

\* the call has completed the updates of at least one sweep
SweepDone == run.pc \in {"evalF", "while", "done"} /\ run.i >= 1

\* |V[k]| is the set point |V0[k]|, to one unit of the number model
AtSetPoint(k) ==
    /\ run.V[k].fin
    /\ run.Vm[k] = CAbs(inp.V0[k])
    /\ AbsInt(CAbs(run.V[k]).re - run.Vm[k].re) <= 1

\* the events of the current sweep that are PV updates
PVEvents == {n \in 1 .. Len(run.log) : run.log[n].ph = "pv"}

\* C4 as claimed: after every completed sweep the magnitude of V at every PV
\* bus equals the magnitude of V0 at that bus.
C4_Original == SweepDone => \A k \in Range(inp.pv) : AtSetPoint(k)

\* C4: after every completed sweep, at every PV bus whose per-bus update
\* left a finite, nonzero voltage, the magnitude of V equals the magnitude
\* of V0 captured in Vm before the first sweep (to one unit); a PV bus whose
\* update left zero or a non-finite value holds a non-finite voltage.
C4_SetPointMagnitude ==
    SweepDone =>
        \A n \in PVEvents :
            LET e == run.log[n]
            IN  IF e.val.fin /\ ~IsZero(e.val)
                THEN AtSetPoint(e.bus)
                ELSE ~run.V[e.bus].fin

\* a completed sweep whose PV update had left the magnitude off the set point
\* and moved the angle: after the renormalisation the magnitude is back
C4_Witness ==
    /\ SweepDone
    /\ \E n \in PVEvents :
          LET e == run.log[n]
          IN  /\ e.val.fin /\ AtSetPoint(e.bus)
              /\ AbsInt(CAbs(e.val).re - run.Vm[e.bus].re) > 1
              /\ run.V[e.bus].im # inp.V0[e.bus].im

\* C5 as claimed: Sbus is as passed except at PV buses, where its real part
\* is as passed; with no PV bus there is no PV update and Sbus is as passed.
C5_Original ==
    /\ \A b \in Buses \ Range(inp.pv) : run.Sbus[b] = inp.Sbus[b]
    /\ \A b \in Range(inp.pv) : RealPart(run.Sbus[b]) = RealPart(inp.Sbus[b])
    /\ inp.pv = << >> => run.Sbus = inp.Sbus /\ run.pc # "pv" /\ PVEvents = {}

\* C5: Sbus is as passed except at PV buses; at a PV bus its real part is as
\* passed as long as the recomputed reactive power is finite (a non-finite
\* one makes the whole entry non-finite); with no PV bus there is no PV
\* update and Sbus is as passed.
C5_SbusFrame ==
    /\ \A b \in Buses \ Range(inp.pv) : run.Sbus[b] = inp.Sbus[b]
    /\ \A b \in Range(inp.pv) :
          run.Sbus[b].fin => RealPart(run.Sbus[b]) = RealPart(inp.Sbus[b])
    /\ inp.pv = << >> => run.Sbus = inp.Sbus /\ run.pc # "pv" /\ PVEvents = {}

\* a call that returned having changed the reactive part, and only that, at
\* a PV bus with a nonzero active injection
C5_Witness ==
    /\ run.pc = "done"
    /\ \E b \in Range(inp.pv) :
          /\ run.Sbus[b].fin /\ run.Sbus[b].im # inp.Sbus[b].im
          /\ run.Sbus[b].re = inp.Sbus[b].re /\ inp.Sbus[b].re # 0

\* the first evaluation has been made and no sweep has begun
FirstChecked == run.pc = "while" /\ run.i = 0

\* r_[mis[ref].real, mis[pq].real, mis[pq].imag]
SwingF(mis, ref, pq) == RealAt(mis, ref \o pq) \o ImagAt(mis, pq)

\* C8 as claimed: the first check's F is the real part of the mismatch at
\* the reference and PQ buses followed by the imaginary part at the PQ buses.
C8_Original ==
    FirstChecked =>
        run.F = SwingF(Mismatch(inp.Ybus, inp.V0, inp.Sbus), inp.ref, inp.pq)

\* C8: the first check and every later check use the same selection: the
\* real part of the mismatch at the PV and PQ buses followed by the imaginary
\* part at the PQ buses.
C8_MismatchSelection ==
    /\ FirstChecked =>
          run.F = LoopF(Mismatch(inp.Ybus, inp.V0, inp.Sbus), inp.pv, inp.pq)
    /\ (run.pc = "while" /\ run.i >= 1) =>
          run.F = LoopF(Mismatch(inp.Ybus, run.V, run.Sbus), inp.pv, inp.pq)

\* a first check that passed although the norm over the reference and PQ
\* buses is not below the tolerance
C8_Witness ==
    /\ FirstChecked /\ run.converged = 1 /\ inp.pv # << >>
    /\ ~BelowTol(NormInf(SwingF(Mismatch(inp.Ybus, inp.V0, inp.Sbus),
                                inp.ref, inp.pq)), inp.tol)

\* what a sweep does, in order: the PQ updates in the order of the pq
\* argument, the PV updates in the order of the pv argument, the
\* renormalisation if there is a PV bus, the mismatch evaluation
SweepOrder ==
    [n \in 1 .. Len(inp.pq) |-> <<"pq", inp.pq[n]>>]
    \o [n \in 1 .. Len(inp.pv) |-> <<"pv", inp.pv[n]>>]
    \o (IF Len(inp.pv) # 0 THEN << <<"renorm", 0 - 1>> >> ELSE << >>)
    \o << <<"evalF", 0 - 1>> >>

\* what the current sweep has done so far
SweepSoFar == [n \in 1 .. Len(run.log) |-> <<run.log[n].ph, run.log[n].bus>>]

IsPrefix(s, t) == Len(s) <= Len(t) /\ SubSeq(t, 1, Len(s)) = s

RECURSIVE Replay(_, _, _)
\* V with the first n per-bus updates of the log written into it
Replay(V, log, n) ==
    IF n = 0 THEN V
    ELSE [Replay(V, log, n - 1) EXCEPT ![log[n].bus] = log[n].val]

\* the last event of the sweep is a per-bus update
LastIsUpdate ==
    Len(run.log) > 0 /\ run.log[Len(run.log)].ph \in {"pq", "pv"}

\* each per-bus update reads the voltages the earlier updates of the sweep
\* wrote, and writes its own at once
GaussSeidel ==
    LastIsUpdate =>
        LET n == Len(run.log)
            e == run.log[n]
        IN  /\ run.Vread = Replay(run.Vsweep, run.log, n - 1)
            /\ e.val = BusUpdate(inp.Ybus, run.Sbus, run.Vread, e.bus)
            /\ run.V = [run.Vread EXCEPT ![e.bus] = e.val]

\* the sweep follows the order, and a completed sweep has done all of it
InOrder ==
    /\ IsPrefix(SweepSoFar, SweepOrder)
    /\ (run.pc \in {"while", "done"} /\ run.i >= 1) => SweepSoFar = SweepOrder

\* the buses of each loop are visited in strictly increasing bus number
Increasing ==
    \A m, n \in 1 .. Len(run.log) :
        (m < n /\ run.log[m].ph = run.log[n].ph /\ run.log[n].ph \in {"pq", "pv"})
            => run.log[m].bus < run.log[n].bus

\* C9 as claimed: PQ buses in strictly increasing bus number, then PV buses
\* in strictly increasing bus number, then the renormalisation, then the
\* evaluation, each update reading the voltages written before it.
C9_Original == InOrder /\ GaussSeidel /\ Increasing

\* C9: within every sweep, the PQ buses are updated in the order the pq
\* argument lists them, then the PV buses in the order the pv argument lists
\* them (increasing bus number when the arguments are sorted), then one
\* renormalisation of the PV buses if there are any, then the mismatch
\* evaluation; each per-bus update writes V[k] at once and reads the voltages
\* written earlier in the sweep.
C9_SweepOrder == InOrder /\ GaussSeidel

\* a sweep over pq = <<2, 1>>: bus 1 updated after bus 2, with a value a
\* Jacobi update would not have given
C9_Witness ==
    /\ inp.pq = <<2, 1>> /\ run.pc = "pq" /\ Len(run.log) = 2
    /\ run.log[1].bus = 2 /\ run.log[2].bus = 1
    /\ run.log[2].val.fin
    /\ run.log[2].val # BusUpdate(inp.Ybus, run.Sbus, run.Vsweep, 1)

====
